---- MODULE Spec2Model ----
(***************************************************************************)
(* A model of scripts/scrape-crl-posts.py: one run of main() (fetch with   *)
(* retries, candidate selection, per-fragment extraction, output write)    *)
(* and its pure helpers parse_date, extract_tags and extract_post_data.    *)
(*                                                                         *)
(* Python str values are sequences of one-character strings, so that       *)
(* strip, lower, startswith, substring tests, sorting and date parsing are *)
(* computed character by character.  An Optional value is <<>> (None) or   *)
(* <<x>> (the value x).                                                    *)
(***************************************************************************)
EXTENDS Integers, Sequences, FiniteSets, TLC

VARIABLES
    pc,          \* position of the run (or of the helper under test)
    total,       \* Retry.total still available to the request
    attempts,    \* GET attempts issued so far
    firstResp,   \* Optional: the first response (or connection error) received
    exc,         \* Optional: the exception being propagated
    page,        \* the parsed document: its elements in document order
    post_cards,  \* the candidate fragments selected from the page
    idx,         \* 1-based position of the extraction loop
    posts,       \* the BlogPost records collected so far
    visited,     \* the candidate positions handed to extract_post_data, in order
    results,     \* what extract_post_data returned for each of them
    outFile,     \* content of OUTPUT_PATH
    fileBefore,  \* content of OUTPUT_PATH when the run started
    written,     \* write_text completed in this run
    exitCode,    \* Optional: the value main() returned
    libc,        \* the C library behind datetime.strftime
    arg,         \* helper specifications: the argument of the call
    ret          \* helper specifications: the value returned

vars == <<pc, total, attempts, firstResp, exc, page, post_cards, idx, posts,
          visited, results, outFile, fileBefore, written, exitCode, libc, arg, ret>>

runVars == <<total, attempts, firstResp, exc, page, post_cards, idx, posts,
             visited, results, outFile, fileBefore, written, exitCode>>

----------------------------------------------------------------------------
(* Optional values *)

None == <<>>

Some(x) == <<x>>

----------------------------------------------------------------------------
(* Python str operations, character by character *)

\* the characters the model uses, in code point order
Alphabet ==
    <<" ", "#", ",", "-", ".", "/",
      "0", "1", "2", "3", "4", "5", "6", "7", "8", "9", ":",
      "A", "B", "C", "D", "E", "F", "G", "H", "I", "J", "K", "L", "M",
      "N", "O", "P", "Q", "R", "S", "T", "U", "V", "W", "X", "Y", "Z",
      "a", "b", "c", "d", "e", "f", "g", "h", "i", "j", "k", "l", "m",
      "n", "o", "p", "q", "r", "s", "t", "u", "v", "w", "x", "y", "z">>

Ord(c) == CHOOSE i \in 1..Len(Alphabet) : Alphabet[i] = c

UpperChars == <<"A","B","C","D","E","F","G","H","I","J","K","L","M","N","O","P","Q","R","S","T","U","V","W","X","Y","Z">>

LowerChars == <<"a","b","c","d","e","f","g","h","i","j","k","l","m","n","o","p","q","r","s","t","u","v","w","x","y","z">>

\* str.lower()
lower(s) ==
    [i \in 1..Len(s) |->
        IF \E k \in 1..Len(UpperChars) : UpperChars[k] = s[i]
        THEN LowerChars[CHOOSE k \in 1..Len(UpperChars) : UpperChars[k] = s[i]]
        ELSE s[i]]

\* str.strip(), also get_text(strip=True) of an element holding one text node
strip(s) ==
    LET keep == {i \in 1..Len(s) : s[i] /= " "}
    IN  IF keep = {} THEN <<>>
        ELSE LET lo == CHOOSE i \in keep : \A j \in keep : i <= j
                 hi == CHOOSE i \in keep : \A j \in keep : j <= i
             IN  SubSeq(s, lo, hi)

\* s.startswith(p)
startswith(s, p) == Len(p) <= Len(s) /\ SubSeq(s, 1, Len(p)) = p

\* k in s
contains(s, k) ==
    \E i \in 0..(Len(s) - Len(k)) : SubSeq(s, i + 1, i + Len(k)) = k

\* a < b on str: lexicographic by code point
RECURSIVE StrLess(_, _)
StrLess(a, b) ==
    IF a = <<>> THEN b /= <<>>
    ELSE IF b = <<>> THEN FALSE
    ELSE IF a[1] = b[1] THEN StrLess(Tail(a), Tail(b))
    ELSE Ord(a[1]) < Ord(b[1])

\* sorted(list(S)) for a set S of str
RECURSIVE sorted(_)
sorted(S) ==
    IF S = {} THEN <<>>
    ELSE LET m == CHOOSE x \in S : \A y \in S \ {x} : StrLess(x, y)
         IN  <<m>> \o sorted(S \ {m})

\* list(S) for a set S of str: the members in an order set iteration may
\* give (here the descending one)
RECURSIVE listed(_)
listed(S) ==
    IF S = {} THEN <<>>
    ELSE LET m == CHOOSE x \in S : \A y \in S \ {x} : StrLess(y, x)
         IN  <<m>> \o listed(S \ {m})

Range(f) == {f[i] : i \in DOMAIN f}

----------------------------------------------------------------------------
(* Configuration constants *)

EXCERPT_MAX_LENGTH == 200

MAX_RETRIES == 3

ORIGIN == <<"h","t","t","p","s",":","/","/","w","w","w",".","c","o","c","k","r","o","a","c","h","l","a","b","s",".","c","o","m">>

DEFAULT_TAGS == {<<"d","a","t","a","b","a","s","e","s">>}

\* status_forcelist of the Retry strategy
status_forcelist == {500, 502, 503, 504}

\* urllib3 Retry.RETRY_AFTER_STATUS_CODES, in force because the strategy is
\* built with the default respect_retry_after_header=True
RETRY_AFTER_STATUS_CODES == {413, 429, 503}

\* each format as its directives and literal characters
DATE_FORMATS ==
    << <<"%B", " ", "%d", ",", " ", "%Y">>,
       <<"%b", " ", "%d", ",", " ", "%Y">>,
       <<"%Y", "-", "%m", "-", "%d">>,
       <<"%m", "/", "%d", "/", "%Y">> >>

----------------------------------------------------------------------------
(* extract_tags *)

tag_keywords ==
    << [tag |-> <<"d","i","s","t","r","i","b","u","t","e","d","-","s","y","s","t","e","m","s">>,
        keywords |-> <<<<"d","i","s","t","r","i","b","u","t","e","d">>, <<"m","u","l","t","i","-","r","e","g","i","o","n">>, <<"g","e","o","-","d","i","s","t","r","i","b","u","t","e","d">>, <<"r","e","p","l","i","c","a","t","i","o","n">>>>],
       [tag |-> <<"r","e","l","i","a","b","i","l","i","t","y">>,
        keywords |-> <<<<"r","e","l","i","a","b","i","l","i","t","y">>, <<"r","e","s","i","l","i","e","n","c","e">>, <<"f","a","i","l","o","v","e","r">>, <<"u","p","t","i","m","e">>>>],
       [tag |-> <<"d","i","s","a","s","t","e","r","-","r","e","c","o","v","e","r","y">>,
        keywords |-> <<<<"d","i","s","a","s","t","e","r"," ","r","e","c","o","v","e","r","y">>, <<"b","a","c","k","u","p">>, <<"r","e","s","t","o","r","e">>, <<"r","e","c","o","v","e","r","y">>>>],
       [tag |-> <<"p","r","o","d","u","c","t","-","m","a","n","a","g","e","m","e","n","t">>,
        keywords |-> <<<<"p","r","o","d","u","c","t">>, <<"p","r","i","c","i","n","g">>, <<"p","a","c","k","a","g","i","n","g">>, <<"s","t","r","a","t","e","g","y">>>>],
       [tag |-> <<"p","r","i","c","i","n","g">>,
        keywords |-> <<<<"p","r","i","c","i","n","g">>, <<"c","o","s","t">>, <<"b","i","l","l","i","n","g">>>>],
       [tag |-> <<"c","l","o","u","d">>,
        keywords |-> <<<<"c","l","o","u","d">>, <<"a","w","s">>, <<"g","c","p">>, <<"a","z","u","r","e">>>>],
       [tag |-> <<"s","e","c","u","r","i","t","y">>,
        keywords |-> <<<<"s","e","c","u","r","i","t","y">>, <<"a","u","t","h","e","n","t","i","c","a","t","i","o","n">>, <<"e","n","c","r","y","p","t","i","o","n">>>>],
       [tag |-> <<"p","e","r","f","o","r","m","a","n","c","e">>,
        keywords |-> <<<<"p","e","r","f","o","r","m","a","n","c","e">>, <<"o","p","t","i","m","i","z","a","t","i","o","n">>, <<"l","a","t","e","n","c","y">>>>],
       [tag |-> <<"m","i","g","r","a","t","i","o","n">>,
        keywords |-> <<<<"m","i","g","r","a","t","i","o","n">>, <<"m","i","g","r","a","t","e">>, <<"m","i","g","r","a","t","i","n","g">>>>],
       [tag |-> <<"a","r","c","h","i","t","e","c","t","u","r","e">>,
        keywords |-> <<<<"a","r","c","h","i","t","e","c","t","u","r","e">>, <<"d","e","s","i","g","n">>, <<"p","a","t","t","e","r","n">>>>] >>

\* extract_tags with the final sorted() left out
extract_tags_unsorted(card, title, excerpt) ==
    LET combined_text == lower(title \o <<" ">> \o excerpt)
        tags == DEFAULT_TAGS \cup
                { tag_keywords[i].tag : i \in
                    { j \in DOMAIN tag_keywords :
                        \E k \in DOMAIN tag_keywords[j].keywords :
                            contains(combined_text, tag_keywords[j].keywords[k]) } }
    IN  listed(tags)

extract_tags(card, title, excerpt) ==
    LET combined_text == lower(title \o <<" ">> \o excerpt)
        tags == DEFAULT_TAGS \cup
                { tag_keywords[i].tag : i \in
                    { j \in DOMAIN tag_keywords :
                        \E k \in DOMAIN tag_keywords[j].keywords :
                            contains(combined_text, tag_keywords[j].keywords[k]) } }
    IN  sorted(tags)

----------------------------------------------------------------------------
(* parse_date: datetime.strptime(date_str, fmt).strftime("%Y-%m-%d") *)

Digits == <<"0","1","2","3","4","5","6","7","8","9">>

IsDigit(c) == c \in Range(Digits)

DigitVal(c) == (CHOOSE i \in 1..10 : Digits[i] = c) - 1

RECURSIVE Num(_)
Num(s) == IF s = <<>> THEN 0 ELSE 10 * Num(SubSeq(s, 1, Len(s) - 1)) + DigitVal(s[Len(s)])

\* n written with at least w digits, zero-padded
RECURSIVE Dec(_, _)
Dec(n, w) ==
    IF n < 10 /\ w <= 1 THEN <<Digits[n + 1]>>
    ELSE Dec(n \div 10, w - 1) \o <<Digits[(n % 10) + 1]>>

MonthNames ==
    <<<<"j","a","n","u","a","r","y">>, <<"f","e","b","r","u","a","r","y">>, <<"m","a","r","c","h">>, <<"a","p","r","i","l">>, <<"m","a","y">>, <<"j","u","n","e">>, <<"j","u","l","y">>,
      <<"a","u","g","u","s","t">>, <<"s","e","p","t","e","m","b","e","r">>, <<"o","c","t","o","b","e","r">>, <<"n","o","v","e","m","b","e","r">>, <<"d","e","c","e","m","b","e","r">>>>

MonthAbbrs ==
    <<<<"j","a","n">>, <<"f","e","b">>, <<"m","a","r">>, <<"a","p","r">>, <<"m","a","y">>, <<"j","u","n">>, <<"j","u","l">>,
      <<"a","u","g">>, <<"s","e","p">>, <<"o","c","t">>, <<"n","o","v">>, <<"d","e","c">>>>

\* the ways one directive can match at the start of s: <<characters used, value>>
\* (the regular expressions of _strptime, matched ignoring case)
NameMatches(s, names) ==
    { <<Len(names[k]), k>> : k \in
        { j \in DOMAIN names : startswith(lower(s), names[j]) } }

\* %m: 1[0-2]|0[1-9]|[1-9]
MonthMatches(s) ==
    (IF Len(s) >= 2 /\ IsDigit(s[1]) /\ IsDigit(s[2]) /\ Num(SubSeq(s, 1, 2)) \in 1..12
     THEN {<<2, Num(SubSeq(s, 1, 2))>>} ELSE {})
    \cup
    (IF Len(s) >= 1 /\ IsDigit(s[1]) /\ DigitVal(s[1]) >= 1
     THEN {<<1, DigitVal(s[1])>>} ELSE {})

\* %d: 3[0-1]|[1-2]\d|0[1-9]|[1-9]| [1-9]
DayMatches(s) ==
    (IF Len(s) >= 2 /\ IsDigit(s[1]) /\ IsDigit(s[2]) /\ Num(SubSeq(s, 1, 2)) \in 1..31
     THEN {<<2, Num(SubSeq(s, 1, 2))>>} ELSE {})
    \cup
    (IF Len(s) >= 1 /\ IsDigit(s[1]) /\ DigitVal(s[1]) >= 1
     THEN {<<1, DigitVal(s[1])>>} ELSE {})
    \cup
    (IF Len(s) >= 2 /\ s[1] = " " /\ IsDigit(s[2]) /\ DigitVal(s[2]) >= 1
     THEN {<<2, DigitVal(s[2])>>} ELSE {})

\* %Y: \d\d\d\d
YearMatches(s) ==
    IF Len(s) >= 4 /\ \A i \in 1..4 : IsDigit(s[i])
    THEN {<<4, Num(SubSeq(s, 1, 4))>>} ELSE {}

\* a space of the format: \s+
SpaceMatches(s) ==
    { <<n, 0>> : n \in { m \in 1..Len(s) : \A i \in 1..m : s[i] = " " } }

\* any other character of the format matches itself
LiteralMatches(s, c) ==
    IF Len(s) >= 1 /\ s[1] = c THEN {<<1, 0>>} ELSE {}

\* The parses of the whole of s by the format items: the fields found by the
\* compiled regular expression, which must leave no unconverted data.  In
\* these four formats every directive is followed by a literal it cannot
\* contain and the two-character alternatives come first, so the first match
\* of the regular expression is the only parse.
RECURSIVE Parses(_, _, _)
Parses(items, s, acc) ==
    IF items = <<>> THEN (IF s = <<>> THEN {acc} ELSE {})
    ELSE LET it == Head(items)
             ms == CASE it = "%B" -> NameMatches(s, MonthNames)
                     [] it = "%b" -> NameMatches(s, MonthAbbrs)
                     [] it = "%m" -> MonthMatches(s)
                     [] it = "%d" -> DayMatches(s)
                     [] it = "%Y" -> YearMatches(s)
                     [] it = " "  -> SpaceMatches(s)
                     [] OTHER     -> LiteralMatches(s, it)
         IN  UNION { Parses(Tail(items), SubSeq(s, m[1] + 1, Len(s)),
                            CASE it \in {"%B", "%b", "%m"} -> [acc EXCEPT !.m = m[2]]
                              [] it = "%d" -> [acc EXCEPT !.d = m[2]]
                              [] it = "%Y" -> [acc EXCEPT !.Y = m[2]]
                              [] OTHER -> acc) : m \in ms }

IsLeap(y) == y % 4 = 0 /\ (y % 100 /= 0 \/ y % 400 = 0)

DaysInMonth(y, m) ==
    IF m = 2 THEN (IF IsLeap(y) THEN 29 ELSE 28)
    ELSE IF m \in {4, 6, 9, 11} THEN 30 ELSE 31

\* datetime.strptime: Optional [Y, m, d]; None stands for ValueError
strptime(date_str, fmt) ==
    LET found == { r \in Parses(fmt, date_str, [Y |-> 1900, m |-> 1, d |-> 1]) :
                     r.Y >= 1 /\ r.d <= DaysInMonth(r.Y, r.m) }
    IN  IF found = {} THEN None ELSE Some(CHOOSE r \in found : TRUE)

\* datetime.strftime("%Y-%m-%d"): %Y is the C library's; glibc writes a year
\* below 1000 without leading zeros, other libraries write four digits
strftime(dt) ==
    Dec(dt.Y, IF libc = "glibc" THEN 1 ELSE 4) \o <<"-">> \o Dec(dt.m, 2) \o <<"-">> \o Dec(dt.d, 2)

RECURSIVE try_formats(_, _)
try_formats(date_str, fmts) ==
    IF fmts = <<>> THEN None
    ELSE LET dt == strptime(date_str, Head(fmts))
         IN  IF dt /= None THEN Some(strftime(dt[1]))
             ELSE try_formats(date_str, Tail(fmts))

parse_date(date_str) == try_formats(strip(date_str), DATE_FORMATS)

----------------------------------------------------------------------------
(* BlogPost *)

Min(a, b) == IF a <= b THEN a ELSE b

BlogPost(title, url, date, image, excerpt, tags) ==
    [title   |-> title,
     url     |-> url,
     date    |-> date,
     image   |-> image,
     excerpt |-> IF excerpt /= <<>>
                 THEN SubSeq(excerpt, 1, Min(EXCERPT_MAX_LENGTH, Len(excerpt)))
                 ELSE <<>>,
     tags    |-> IF tags /= <<>> THEN tags ELSE listed(DEFAULT_TAGS)]

to_dict(post) ==
    [title   |-> post.title,
     url     |-> post.url,
     date    |-> post.date,
     image   |-> post.image,
     excerpt |-> post.excerpt,
     source  |-> "cockroach-labs",
     tags    |-> post.tags]

----------------------------------------------------------------------------
(* extract_post_data                                                       *)
(*                                                                         *)
(* A fragment (the card) is what the lookups of extract_post_data see:     *)
(*   h2, h3        Optional raw text of the first h2 / h3                  *)
(*   anchors       the a elements in document order: [text, href],         *)
(*                 href Optional                                           *)
(*   img           Optional first img: [src], src Optional                 *)
(*   p             Optional raw text of the first p                        *)
(*   div_excerpt   Optional raw text of the first div whose class matches  *)
(*                 excerpt|description|summary                             *)
(*   time          Optional raw text of the first time element             *)
(*   span_date     Optional raw text of the first span whose class matches *)
(*                 date                                                    *)
(*   fault         a lookup inside the try block raises an Exception       *)
(***************************************************************************)

\* card.find("h2") or card.find("h3") or card.find("a"): a Tag is truthy
\* whatever it contains
title_elem_of(card) ==
    IF card.h2 /= None THEN card.h2
    ELSE IF card.h3 /= None THEN card.h3
    ELSE IF card.anchors /= <<>> THEN Some(card.anchors[1].text)
    ELSE None

\* card.find("a", href=True)
link_elem_of(card) ==
    LET withHref == SelectSeq(card.anchors, LAMBDA a : a.href /= None)
    IN  IF withHref = <<>> THEN None ELSE Some(withHref[1])

\* the url of the record: relative URLs converted to absolute
url_of(href) ==
    IF ~startswith(href, <<"h","t","t","p">>) THEN ORIGIN \o href ELSE href

\* the image of the record
image_url_of(card) ==
    IF card.img /= None /\ card.img[1].src /= None
    THEN LET src == card.img[1].src[1]
         IN  IF src /= <<>> /\ ~startswith(src, <<"h","t","t","p">>)
             THEN Some(ORIGIN \o src)
             ELSE Some(src)
    ELSE None

extract_post_data(card) ==
    IF card.fault THEN None
    ELSE
    LET title_elem == title_elem_of(card)
    IN  IF title_elem = None THEN None
        ELSE
        LET title == strip(title_elem[1])
            link_elem == link_elem_of(card)
        IN  IF link_elem = None THEN None
            ELSE
            LET url == url_of(link_elem[1].href[1])
                image_url == image_url_of(card)
                excerpt_elem == IF card.p /= None THEN card.p ELSE card.div_excerpt
                excerpt == IF excerpt_elem /= None THEN strip(excerpt_elem[1]) ELSE <<>>
                date_elem == IF card.time /= None THEN card.time ELSE card.span_date
                date_str == IF date_elem /= None THEN Some(strip(date_elem[1])) ELSE None
                published_date == IF date_str /= None /\ date_str[1] /= <<>>
                                  THEN parse_date(date_str[1])
                                  ELSE None
                tags == extract_tags(card, title, excerpt)
            IN  Some(BlogPost(title, url, published_date, image_url, excerpt, tags))

----------------------------------------------------------------------------
(* The platforms and the idle run shared by the helper specifications *)

Libcs == {"glibc", "other"}

RunIdle ==
    /\ total = 0
    /\ attempts = 0
    /\ firstResp = None
    /\ exc = None
    /\ page = <<>>
    /\ post_cards = <<>>
    /\ idx = 0
    /\ posts = <<>>
    /\ visited = <<>>
    /\ results = <<>>
    /\ outFile = None
    /\ fileBefore = None
    /\ written = FALSE
    /\ exitCode = None

----------------------------------------------------------------------------
(* SpecTags: extract_tags applied to titles and excerpts, and the record   *)
(* built from its result                                                   *)

MaxWords == 2

TagWords ==
    {<<"M","u","l","t","i","-","R","e","g","i","o","n">>, <<"r","e","p","l","i","c","a","t","i","o","n">>, <<"P","r","i","c","i","n","g">>, <<"c","o","s","t","u","m","e">>,
     <<"d","i","s","a","s","t","e","r">>, <<"r","e","c","o","v","e","r","y">>, <<"A","W","S">>, <<"d","e","s","i","g","n">>}

TagExcerpts == {<<>>, <<"B","a","c","k","u","p"," ","a","n","d"," ","r","e","s","t","o","r","e">>, <<"l","o","w"," ","l","a","t","e","n","c","y">>}

\* up to n words joined by single spaces
RECURSIVE Phrases(_)
Phrases(n) ==
    IF n = 0 THEN {<<>>}
    ELSE Phrases(n - 1) \cup
         { (IF t = <<>> THEN <<>> ELSE t \o <<" ">>) \o w :
             t \in Phrases(n - 1), w \in TagWords }

NoCard ==
    [h2 |-> None, h3 |-> None, anchors |-> <<>>, img |-> None, p |-> None,
     div_excerpt |-> None, time |-> None, span_date |-> None, fault |-> FALSE]

InitTags ==
    /\ pc = "call"
    /\ libc \in Libcs
    /\ arg \in [title : Phrases(MaxWords), excerpt : TagExcerpts]
    /\ ret = None
    /\ RunIdle

CallExtractTags ==
    /\ pc = "call"
    /\ ret' = extract_tags(NoCard, arg.title, arg.excerpt)
    /\ pc' = "tags"
    /\ UNCHANGED <<runVars, libc, arg>>

ConstructPost ==
    /\ pc = "tags"
    /\ posts' = <<BlogPost(arg.title, ORIGIN, None, None, arg.excerpt, ret)>>
    /\ pc' = "post"
    /\ UNCHANGED <<total, attempts, firstResp, exc, page, post_cards, idx, visited,
                   results, outFile, fileBefore, written, exitCode, libc, arg, ret>>

NextTags == CallExtractTags \/ ConstructPost

SpecTags == InitTags /\ [][NextTags]_vars

----------------------------------------------------------------------------
(* SpecDate: parse_date applied to date texts *)

DateTokens ==
    {<<"J","a","n","u","a","r","y">>, <<"f","e","b">>, <<"M","a","y">>, <<"2","0","2","4">>, <<"0","9","9","9">>, <<"0","1">>, <<"2">>, <<"3","0">>, <<"1","3">>}

DateSeps == {<<" ">>, <<","," ">>, <<"-">>, <<"/">>}

DateTexts ==
    { lead \o a \o s1 \o b \o s2 \o c :
        lead \in {<<>>, <<" ">>}, a \in DateTokens, s1 \in DateSeps,
        b \in DateTokens, s2 \in DateSeps, c \in DateTokens }
    \cup {<<"y","e","s","t","e","r","d","a","y">>, <<"S","e","p","t"," ","5",","," ","2","0","2","4">>, <<"2","0","2","4","-","0","1","-","1","5","x">>, <<"J","a","n","u","a","r","y"," "," ","5",","," "," ","2","0","2","4"," ">>}

InitDate ==
    /\ pc = "call"
    /\ libc \in Libcs
    /\ arg \in DateTexts
    /\ ret = None
    /\ RunIdle

CallParseDate ==
    /\ pc = "call"
    /\ ret' = parse_date(arg)
    /\ pc' = "ret"
    /\ UNCHANGED <<runVars, libc, arg>>

NextDate == CallParseDate

SpecDate == InitDate /\ [][NextDate]_vars

----------------------------------------------------------------------------
(* SpecExtract: extract_post_data applied to fragments *)

TitleTexts == {<<" "," ">>, <<" ","P","r","i","c","i","n","g"," ","G","u","i","d","e"," ">>}

Anchors ==
    { <<>>,
      <<[text |-> <<"R","e","a","d"," ","m","o","r","e">>, href |-> None]>>,
      <<[text |-> <<"R","e","a","d"," ","m","o","r","e">>, href |-> Some(<<"/","b","l","o","g","/","x","/">>)]>>,
      <<[text |-> <<"R","e","a","d"," ","m","o","r","e">>, href |-> Some(<<"h","t","t","p","-","b","a","s","i","c","s","/">>)]>>,
      <<[text |-> <<"R","e","a","d"," ","m","o","r","e">>, href |-> Some(<<"h","t","t","p","s",":","/","/","w","w","w",".","c","o","c","k","r","o","a","c","h","l","a","b","s",".","c","o","m","/","b","l","o","g","/","y","/">>)]>>,
      <<[text |-> <<>>, href |-> None],
        [text |-> <<"R","e","a","d"," ","m","o","r","e">>, href |-> Some(<<"/","b","l","o","g","/","x","/">>)]>> }

Images ==
    { None,
      Some([src |-> None]),
      Some([src |-> Some(<<>>)]),
      Some([src |-> Some(<<"/","i","m","g","/","x",".","p","n","g">>)]),
      Some([src |-> Some(<<"h","t","t","p",":","/","/","c","d","n",".","i","o","/","x",".","p","n","g">>)]) }

Fragments ==
    [h2          : {None} \cup {Some(t) : t \in TitleTexts},
     h3          : {None, Some(<<"C","l","o","u","d"," ","c","o","s","t","s">>)},
     anchors     : Anchors,
     img         : Images,
     p           : {None, Some(<<" ","B","a","c","k","u","p"," ","a","n","d"," ","r","e","s","t","o","r","e","."," ">>)},
     div_excerpt : {None, Some(<<"D","e","s","i","g","n"," ","p","a","t","t","e","r","n","s">>)},
     time        : {None, Some(<<"J","a","n"," ","5",","," ","2","0","2","4">>), Some(<<"y","e","s","t","e","r","d","a","y">>)},
     span_date   : {None, Some(<<"0","1","/","0","2","/","2","0","2","4">>)},
     fault       : BOOLEAN]

InitExtract ==
    /\ pc = "call"
    /\ libc \in Libcs
    /\ arg \in Fragments
    /\ ret = None
    /\ RunIdle

CallExtractPostData ==
    /\ pc = "call"
    /\ ret' = extract_post_data(arg)
    /\ pc' = "ret"
    /\ UNCHANGED <<runVars, libc, arg>>

NextExtract == CallExtractPostData

SpecExtract == InitExtract /\ [][NextExtract]_vars

----------------------------------------------------------------------------
(* The run of main() *)

MaxCards == 2

\* --- the retry strategy of create_session_with_retries (urllib3 Retry) ---

\* one outcome of one GET attempt: a response, or a connection/read error
Response(status, retry_after) ==
    [kind |-> "response", status |-> status, retry_after |-> retry_after]

ConnError == [kind |-> "error", status |-> 0, retry_after |-> FALSE]

Responses ==
    { Response(s, FALSE) : s \in {200, 403, 404, 429, 500, 501, 502, 503, 504} }
    \cup { Response(413, TRUE), Response(429, TRUE), ConnError }

\* is_retry retrying on every error status
is_retry_any_error(resp, t) == resp.status >= 400

\* Retry.is_retry for a GET: the status is in status_forcelist, or retries
\* remain and the response carries Retry-After with a status that honours it
is_retry(resp, t) ==
    \/ resp.status \in status_forcelist
    \/ (t /= 0 /\ resp.retry_after /\ resp.status \in RETRY_AFTER_STATUS_CODES)

\* is_exhausted allowing one retry more
is_exhausted_late(t) == t < -1

\* Retry.is_exhausted after Retry.increment took one from total
is_exhausted(t) == t < 0

\* response.raise_for_status() raises HTTPError
is_http_error(resp) == resp.status >= 400 /\ resp.status < 600

\* the exception classes met, each with its base classes
Bases ==
    [HTTPError        |-> {"HTTPError", "RequestException", "OSError", "Exception"},
     RetryError       |-> {"RetryError", "RequestException", "OSError", "Exception"},
     ConnectionError  |-> {"ConnectionError", "RequestException", "OSError", "Exception"},
     OSError          |-> {"OSError", "Exception"},
     Exception        |-> {"Exception"}]

isinstance(e, cls) == cls \in Bases[e]

\* --- the page ---

Card(h2, h3, anchors, img, p, time, fault) ==
    [h2 |-> h2, h3 |-> h3, anchors |-> anchors, img |-> img, p |-> p,
     div_excerpt |-> None, time |-> time, span_date |-> None, fault |-> fault]

Link(href) == <<[text |-> <<"R","e","a","d"," ","m","o","r","e">>, href |-> Some(href)]>>

\* the elements a page is made of: name, class attribute, content
Elements ==
    { [name |-> "article", class |-> <<>>,
       frag |-> Card(Some(<<" ","P","r","i","c","i","n","g"," ","G","u","i","d","e"," ">>), None, Link(<<"/","b","l","o","g","/","p","r","i","c","i","n","g","/">>),
                     Some([src |-> Some(<<"/","i","m","g","/","x",".","p","n","g">>)]),
                     Some(<<"W","h","a","t"," ","i","t"," ","c","o","s","t","s",".">>), Some(<<"J","a","n"," ","5",","," ","2","0","2","4">>), FALSE)],
      [name |-> "article", class |-> <<>>,
       frag |-> Card(None, Some(<<"M","u","l","t","i","-","R","e","g","i","o","n">>),
                     Link(<<"h","t","t","p","s",":","/","/","w","w","w",".","c","o","c","k","r","o","a","c","h","l","a","b","s",".","c","o","m","/","b","l","o","g","/","m","r","/">>),
                     None, None, None, FALSE)],
      [name |-> "article", class |-> <<>>,
       frag |-> Card(Some(<<"N","o"," ","l","i","n","k">>), None, <<>>, None, None, None, FALSE)],
      [name |-> "article", class |-> <<>>,
       frag |-> Card(Some(<<"B","r","o","k","e","n">>), None, Link(<<"/","b","l","o","g","/","b","/">>), None, None, None, TRUE)],
      [name |-> "div", class |-> <<"p","o","s","t","-","c","a","r","d">>,
       frag |-> Card(None, Some(<<"C","l","o","u","d"," ","c","o","s","t","s">>), Link(<<"/","b","l","o","g","/","c","l","o","u","d","/">>),
                     None, None, Some(<<"y","e","s","t","e","r","d","a","y">>), FALSE)],
      [name |-> "div", class |-> <<"P","o","s","t","L","i","s","t">>,
       frag |-> Card(Some(<<"S","i","d","e","b","a","r">>), None, Link(<<"/","a","b","o","u","t","/">>), None, None, None, FALSE)] }

RECURSIVE SeqsUpTo(_, _)
SeqsUpTo(S, n) ==
    IF n = 0 THEN {<<>>}
    ELSE SeqsUpTo(S, n - 1) \cup
         { Append(q, e) : q \in { r \in SeqsUpTo(S, n - 1) : Len(r) = n - 1 }, e \in S }

Pages == SeqsUpTo(Elements, MaxCards)

\* soup.find_all("article")
find_all_article(pg) == SelectSeq(pg, LAMBDA e : e.name = "article")

\* soup.find_all("div", class_=re.compile("post|article|card"))
find_all_div_class(pg) ==
    SelectSeq(pg, LAMBDA e :
        /\ e.name = "div"
        /\ \/ contains(e.class, <<"p","o","s","t">>)
           \/ contains(e.class, <<"a","r","t","i","c","l","e">>)
           \/ contains(e.class, <<"c","a","r","d">>))

\* the two tiers taken together
select_post_cards_mixed(pg) == find_all_article(pg) \o find_all_div_class(pg)

\* find_all("article") or find_all("div", ...): an empty result is falsy
select_post_cards(pg) ==
    IF find_all_article(pg) /= <<>> THEN find_all_article(pg)
    ELSE find_all_div_class(pg)

\* the loop body putting each record first
collect_front(ps, post) == IF post /= None THEN <<post[1]>> \o ps ELSE ps

\* the body of the loop over post_cards: if post: posts.append(post)
collect(ps, post) == IF post /= None THEN Append(ps, post[1]) ELSE ps

\* the test of the result left out
no_posts_never(ps) == FALSE

\* if not posts
no_posts(ps) == ps = <<>>

\* a handler for request errors only
main_catches_requests(e) == isinstance(e, "RequestException")

\* except Exception in main
main_catches(e) == isinstance(e, "Exception")

\* --- the output file ---

Timestamps == {"run-a", "run-b"}

\* generate_typescript_file: the header's timestamp and the array of records
generate_typescript_file(ps, ts) ==
    [timestamp |-> ts, crlPosts |-> [i \in 1..Len(ps) |-> to_dict(ps[i])],
     complete |-> TRUE]

StaleFile ==
    [timestamp |-> "earlier",
     crlPosts |-> <<to_dict(BlogPost(<<"O","l","d">>, ORIGIN, None, None, <<>>, <<>>))>>,
     complete |-> TRUE]

PartialFile(content) == [content EXCEPT !.crlPosts = <<>>, !.complete = FALSE]

Init ==
    /\ pc = "start"
    /\ libc \in Libcs
    /\ total = 0
    /\ attempts = 0
    /\ firstResp = None
    /\ exc = None
    /\ page = <<>>
    /\ post_cards = <<>>
    /\ idx = 0
    /\ posts = <<>>
    /\ visited = <<>>
    /\ results = <<>>
    /\ fileBefore \in {None, Some(StaleFile)}
    /\ outFile = fileBefore
    /\ written = FALSE
    /\ exitCode = None
    /\ arg = None
    /\ ret = None

\* session = create_session_with_retries()
CreateSession ==
    /\ pc = "start"
    /\ total' = MAX_RETRIES
    /\ pc' = "get"
    /\ UNCHANGED <<attempts, firstResp, exc, page, post_cards, idx, posts, visited, results,
                   outFile, fileBefore, written, exitCode, libc, arg, ret>>

\* one attempt of session.get(AUTHOR_URL), followed by raise_for_status()
\* when the adapter returns the response
Get ==
    /\ pc = "get"
    /\ \E resp \in Responses :
        /\ attempts' = attempts + 1
        /\ firstResp' = IF firstResp = None THEN Some(resp) ELSE firstResp
        /\ IF resp.kind = "error" \/ is_retry(resp, total)
           THEN IF is_exhausted(total - 1)
                THEN /\ exc' = Some(IF resp.kind = "error"
                                    THEN "ConnectionError" ELSE "RetryError")
                     /\ pc' = "fetch_failed"
                     /\ total' = total
                ELSE /\ total' = total - 1
                     /\ pc' = "get"
                     /\ exc' = exc
           ELSE /\ total' = total
                /\ IF is_http_error(resp)
                   THEN exc' = Some("HTTPError") /\ pc' = "fetch_failed"
                   ELSE exc' = exc /\ pc' = "parse"
    /\ UNCHANGED <<page, post_cards, idx, posts, visited, results,
                   outFile, fileBefore, written, exitCode, libc, arg, ret>>

\* except requests.RequestException in scrape_crl_author_page: log and raise
FetchFailed ==
    /\ pc = "fetch_failed"
    /\ isinstance(exc[1], "RequestException")
    /\ pc' = "main_except"
    /\ UNCHANGED <<runVars, libc, arg, ret>>

\* BeautifulSoup(response.content) and the selection of the candidates
Parse ==
    /\ pc = "parse"
    /\ \E pg \in Pages :
        /\ page' = pg
        /\ post_cards' = select_post_cards(pg)
    /\ idx' = 1
    /\ pc' = "loop"
    /\ UNCHANGED <<total, attempts, firstResp, exc, posts, visited, results,
                   outFile, fileBefore, written, exitCode, libc, arg, ret>>

\* the parser raises an unexpected Exception, outside any handler of
\* scrape_crl_author_page
ParseFault ==
    /\ pc = "parse"
    /\ exc' = Some("Exception")
    /\ pc' = "main_except"
    /\ UNCHANGED <<total, attempts, firstResp, page, post_cards, idx, posts, visited, results,
                   outFile, fileBefore, written, exitCode, libc, arg, ret>>

\* one iteration of: for i, card in enumerate(post_cards, 1)
ExtractNext ==
    /\ pc = "loop"
    /\ idx <= Len(post_cards)
    /\ visited' = Append(visited, idx)
    /\ LET post == extract_post_data(post_cards[idx].frag)
       IN  /\ results' = Append(results, post)
           /\ posts' = collect(posts, post)
    /\ idx' = idx + 1
    /\ UNCHANGED <<pc, total, attempts, firstResp, exc, page, post_cards,
                   outFile, fileBefore, written, exitCode, libc, arg, ret>>

\* return posts, then main's test of the result
CheckPosts ==
    /\ pc = "loop"
    /\ idx > Len(post_cards)
    /\ IF no_posts(posts)
       THEN exitCode' = Some(1) /\ pc' = "done"
       ELSE exitCode' = exitCode /\ pc' = "write"
    /\ UNCHANGED <<total, attempts, firstResp, exc, page, post_cards, idx, posts,
                   visited, results, outFile, fileBefore, written, libc, arg, ret>>

\* generate_typescript_file and write_output_file succeed; return 0
WriteOutput ==
    /\ pc = "write"
    /\ \E ts \in Timestamps : outFile' = Some(generate_typescript_file(posts, ts))
    /\ written' = TRUE
    /\ exitCode' = Some(0)
    /\ pc' = "done"
    /\ UNCHANGED <<total, attempts, firstResp, exc, page, post_cards, idx, posts,
                   visited, results, fileBefore, libc, arg, ret>>

\* mkdir or write_text raises IOError: the file is untouched or cut short;
\* write_output_file logs and raises
WriteFails ==
    /\ pc = "write"
    /\ \E ts \in Timestamps :
          outFile' \in {outFile, Some(PartialFile(generate_typescript_file(posts, ts)))}
    /\ exc' = Some("OSError")
    /\ pc' = "main_except"
    /\ UNCHANGED <<total, attempts, firstResp, page, post_cards, idx, posts,
                   visited, results, fileBefore, written, exitCode, libc, arg, ret>>

\* except Exception in main: log and return 1; anything else leaves main
MainExcept ==
    /\ pc = "main_except"
    /\ IF main_catches(exc[1])
       THEN exitCode' = Some(1) /\ pc' = "done"
       ELSE exitCode' = exitCode /\ pc' = "crashed"
    /\ UNCHANGED <<total, attempts, firstResp, exc, page, post_cards, idx, posts,
                   visited, results, outFile, fileBefore, written, libc, arg, ret>>

Next ==
    \/ CreateSession
    \/ Get
    \/ FetchFailed
    \/ Parse
    \/ ParseFault
    \/ ExtractNext
    \/ CheckPosts
    \/ WriteOutput
    \/ WriteFails
    \/ MainExcept

Spec == Init /\ [][Next]_vars

----------------------------------------------------------------------------
(* The claims *)

RequestFailed == exc /= None /\ isinstance(exc[1], "RequestException")

\* C1: main() never ends by propagating an exception, and it returns 0
\* exactly when at least one record was extracted and the write of the
\* output file completed; in every other case it returns 1.
C1_ExitCode ==
    /\ pc /= "crashed"
    /\ pc = "done" =>
        /\ exitCode \in {Some(0), Some(1)}
        /\ exitCode = Some(0) <=> (Len(posts) >= 1 /\ written)

\* C1, its case: records were extracted, the write failed, main returned 1
C1_Witness ==
    /\ pc = "done"
    /\ exc = Some("OSError")
    /\ Len(posts) >= 1
    /\ ~written
    /\ exitCode = Some(1)

\* C2 as stated: a fetch issues at most 3 GET attempts in total
C2_AtMostThreeAttempts == attempts <= 3

\* C2 as the code has it: a fetch issues at most MAX_RETRIES + 1 = 4 GET
\* attempts (the first and up to 3 retries); the error of exhausted retries
\* is raised after exactly 4 attempts, and no attempt follows it.
C2_AtMostFourAttempts ==
    /\ attempts <= MAX_RETRIES + 1
    /\ exc \in {Some("RetryError"), Some("ConnectionError")} =>
        /\ attempts = MAX_RETRIES + 1
        /\ pc \in {"fetch_failed", "main_except", "done"}

\* C2, its case: every response was a 503 and the retries ran out
C2_Witness ==
    /\ exc = Some("RetryError")
    /\ firstResp = Some(Response(503, FALSE))
    /\ attempts = MAX_RETRIES + 1
    /\ pc = "done"

FirstIsErrorOutsideForcelist ==
    /\ firstResp /= None
    /\ firstResp[1].kind = "response"
    /\ is_http_error(firstResp[1])
    /\ firstResp[1].status \notin status_forcelist

SingleAttemptFailure ==
    /\ attempts = 1
    /\ exc = Some("HTTPError")
    /\ pc \in {"fetch_failed", "main_except", "done"}
    /\ pc = "done" => exitCode = Some(1)

C4_TitleRequired ==
    pc = "ret" =>
        /\ (\/ title_elem_of(arg) = None
            \/ strip(title_elem_of(arg)[1]) = <<>>) => ret = None
        /\ ret /= None => ret[1].title /= <<>>

\* the values present in a sequence of Optional values, in order
RECURSIVE Present(_)
Present(rs) == IF rs = <<>> THEN <<>> ELSE Head(rs) \o Present(Tail(rs))

\* C5: the candidates are processed once each, in document order, and the
\* result is the non-absent extraction results in that order; a skipped or
\* failing fragment takes exactly one from the count and the loop goes on to
\* the end.
C5_AllCandidatesInOrder ==
    /\ visited = [k \in 1..Len(visited) |-> k]
    /\ Len(results) = Len(visited)
    /\ idx >= 1 => Len(visited) = idx - 1
    /\ (idx >= 1 /\ pc /= "loop") => Len(visited) = Len(post_cards)
    /\ \A k \in DOMAIN results : post_cards[k].frag.fault => results[k] = None
    /\ posts = Present(results)
    /\ Len(posts) = Len(post_cards)
                    - Cardinality({k \in DOMAIN results : results[k] = None})
                    - (Len(post_cards) - Len(visited))

\* C5, its case: the first of two candidates raised, the second was extracted
C5_Witness ==
    /\ pc = "done"
    /\ Len(post_cards) = 2
    /\ post_cards[1].frag.fault
    /\ Len(posts) = 1
    /\ visited = <<1, 2>>

\* C6: a run that ends with a fetch failure or with zero records leaves the
\* output file as it was; the write is reached only after the fetch
\* succeeded, every candidate was processed and a record was collected.
C6_NoWriteOnFailure ==
    /\ (RequestFailed \/ (pc = "done" /\ posts = <<>>)) =>
        (outFile = fileBefore /\ ~written)
    /\ (pc = "write" \/ written \/ outFile /= fileBefore) =>
        /\ ~RequestFailed
        /\ firstResp /= None
        /\ idx = Len(post_cards) + 1
        /\ Len(visited) = Len(post_cards)
        /\ Len(posts) >= 1

\* C6, its case: candidates were found, none gave a record, the old file stays
C6_Witness ==
    /\ pc = "done"
    /\ Len(post_cards) >= 1
    /\ posts = <<>>
    /\ exitCode = Some(1)
    /\ fileBefore = Some(StaleFile)
    /\ outFile = fileBefore

\* C7: extract_tags returns a strictly ascending sequence that contains
\* "databases" and, of the other labels, exactly those with a keyword that
\* is a substring of the lowercased "title excerpt"; for an empty title and
\* excerpt it is the default label alone; the record carries that sequence.
C7_TagsSortedAndExact ==
    pc \in {"tags", "post"} =>
        LET text == lower(arg.title \o <<" ">> \o arg.excerpt)
            labels == Range(ret)
        IN  /\ \A i \in 1..(Len(ret) - 1) : StrLess(ret[i], ret[i + 1])
            /\ <<"d","a","t","a","b","a","s","e","s">> \in labels
            /\ \A i \in DOMAIN tag_keywords :
                  tag_keywords[i].tag \in labels <=>
                      \E k \in DOMAIN tag_keywords[i].keywords :
                          contains(text, tag_keywords[i].keywords[k])
            /\ labels \subseteq {<<"d","a","t","a","b","a","s","e","s">>} \cup {tag_keywords[i].tag : i \in DOMAIN tag_keywords}
            /\ (arg.title = <<>> /\ arg.excerpt = <<>>) => ret = <<<<"d","a","t","a","b","a","s","e","s">>>>
            /\ pc = "post" => posts[1].tags = ret

\* C7, its case: a title with upper case letters and a keyword of two labels
C7_Witness ==
    /\ pc = "post"
    /\ arg.title = <<"P","r","i","c","i","n","g"," ","A","W","S">>
    /\ posts[1].tags = <<<<"c","l","o","u","d">>, <<"d","a","t","a","b","a","s","e","s">>, <<"p","r","i","c","i","n","g">>, <<"p","r","o","d","u","c","t","-","m","a","n","a","g","e","m","e","n","t">>>>

IsAbsoluteUrl(u) == startswith(u, <<"h","t","t","p",":","/","/">>) \/ startswith(u, <<"h","t","t","p","s",":","/","/">>)

\* C8: every record's url is an absolute URL and its image is absent or an
\* absolute URL; a relative value is the site origin followed by it, an
\* absolute one is unchanged.
C8_UrlsAbsolute ==
    (pc = "ret" /\ ret /= None) =>
        LET href == link_elem_of(arg)[1].href[1]
        IN  /\ IsAbsoluteUrl(ret[1].url)
            /\ ret[1].url = IF IsAbsoluteUrl(href) THEN href ELSE ORIGIN \o href
            /\ ret[1].image = None \/ IsAbsoluteUrl(ret[1].image[1])

IsArticle(e) == e.name = "article"

IsHintedDiv(e) ==
    /\ e.name = "div"
    /\ \E hint \in {<<"p","o","s","t">>, <<"a","r","t","i","c","l","e">>, <<"c","a","r","d">>} : contains(e.class, hint)

\* C9: when the page has an article element the candidates are exactly the
\* article elements; the class-hinted div elements are the candidates only
\* when the page has no article element, whatever the extractor later skips.
C9_TwoTierSelection ==
    idx >= 1 =>
        /\ (\E i \in DOMAIN page : IsArticle(page[i])) =>
              post_cards = SelectSeq(page, IsArticle)
        /\ (\A i \in DOMAIN page : ~IsArticle(page[i])) =>
              post_cards = SelectSeq(page, IsHintedDiv)

\* C9, its case: the only article was skipped and the hinted div was not used
C9_Witness ==
    /\ pc = "done"
    /\ Len(page) = 2
    /\ IsArticle(page[1])
    /\ IsHintedDiv(page[2])
    /\ post_cards = <<page[1]>>
    /\ posts = <<>>

\* C10: parse_date trims its input and returns the result of the first of
\* the four formats that parses, rendered as YYYY-MM-DD (four-digit year,
\* two-digit month and day); it returns None when no format parses.
C10_FirstFormatIso ==
    pc = "ret" =>
        LET s == strip(arg)
            hits == {i \in DOMAIN DATE_FORMATS : strptime(s, DATE_FORMATS[i]) /= None}
        IN  IF hits = {} THEN ret = None
            ELSE LET first == CHOOSE i \in hits : \A j \in hits : i <= j
                     dt == strptime(s, DATE_FORMATS[first])[1]
                 IN  ret = Some(Dec(dt.Y, 4) \o <<"-">> \o Dec(dt.m, 2) \o <<"-">> \o Dec(dt.d, 2))

====
